---------------------------- MODULE Spec2Model ----------------------------
(***************************************************************************)
(* A model of the Angular documentation crawler                            *)
(* (src/angular_docs_crawler/crawler.py, config.py, utils.py, src/main.py).*)
(*                                                                         *)
(* URLs, hrefs and file names are TLA+ strings; TLC evaluates Len, SubSeq  *)
(* and \o on strings, so the string functions of the code (substring       *)
(* tests, urlparse, urlunparse, urljoin, split) are computed here the way  *)
(* the code and the standard library compute them.                         *)
(***************************************************************************)
EXTENDS Integers, Sequences, FiniteSets, TLC

(***************************************************************************)
(* Python string primitives.                                               *)
(***************************************************************************)

\* s[a:b] with Python's 0-based indices (a, b >= 0), clamped to the string
\* as Python's slices are.
Slice(s, a, b) ==
    LET hi == IF b > Len(s) THEN Len(s) ELSE b
    IN  IF a >= hi THEN "" ELSE SubSeq(s, a + 1, hi)

\* s[i:] and s[:i].
From(s, i) == Slice(s, i, Len(s))
Upto(s, i) == Slice(s, 0, i)

\* s[i], "" when i is past the end.
CharAt(s, i) == Slice(s, i, i + 1)

\* s.find(c, start): the 0-based index of the first occurrence of the
\* string c at or after start, -1 when there is none.
Find(s, c, start) ==
    LET hits == { i \in start .. (Len(s) - Len(c)) :
                    SubSeq(s, i + 1, i + Len(c)) = c }
    IN  IF hits = {} THEN -1
        ELSE CHOOSE i \in hits : \A j \in hits : i <= j

\* s.rfind(c): the 0-based index of the last occurrence, -1 when none.
RFind(s, c) ==
    LET hits == { i \in 0 .. (Len(s) - Len(c)) :
                    SubSeq(s, i + 1, i + Len(c)) = c }
    IN  IF hits = {} THEN -1
        ELSE CHOOSE i \in hits : \A j \in hits : i >= j

\* Python's "pattern in s".
Contains(pattern, s) == Find(s, pattern, 0) >= 0

\* s.split(sep) for a one-character sep: a sequence of strings.
RECURSIVE Split(_, _)
Split(s, sep) ==
    LET i == Find(s, sep, 0)
    IN  IF i < 0 THEN << s >>
        ELSE << Upto(s, i) >> \o Split(From(s, i + 1), sep)

\* sep.join(parts).
RECURSIVE Join(_, _)
Join(parts, sep) ==
    IF parts = << >> THEN ""
    ELSE IF Len(parts) = 1 THEN parts[1]
    ELSE parts[1] \o sep \o Join(Tail(parts), sep)

UpperCase == "ABCDEFGHIJKLMNOPQRSTUVWXYZ"
LowerCase == "abcdefghijklmnopqrstuvwxyz"
Digits == "0123456789"

\* str.lower() on ASCII.
RECURSIVE Lower(_)
Lower(s) ==
    IF s = "" THEN ""
    ELSE LET c == CharAt(s, 0)
             i == Find(UpperCase, c, 0)
         IN  (IF i >= 0 THEN CharAt(LowerCase, i) ELSE c)
                 \o Lower(From(s, 1))

(***************************************************************************)
(* urllib.parse, as the crawler uses it.                                   *)
(***************************************************************************)

\* scheme_chars of urllib.parse: letters, digits and "+-.".
scheme_chars == LowerCase \o UpperCase \o Digits \o "+-."

\* The schemes of urllib.parse's uses_relative, uses_netloc and uses_params
\* that matter to the crawler's inputs ("" is in all three lists).
uses_relative == { "", "http", "https", "ftp", "file" }
uses_netloc == { "", "http", "https", "ftp", "file" }
uses_params == { "", "http", "https", "ftp" }

\* _splitnetloc(url, 2): the netloc ends at the first of "/", "?", "#".
splitnetloc(url) ==
    LET ends == { Find(url, c, 2) : c \in { "/", "?", "#" } } \ { -1 }
        delim == IF ends = {} THEN Len(url)
                 ELSE CHOOSE i \in ends : \A j \in ends : i <= j
    IN  [ netloc |-> Slice(url, 2, delim), rest |-> From(url, delim) ]

\* s.split(c, 1): s cut at the first c, tail "" when c is not in s.
partition(s, c) ==
    LET k == Find(s, c, 0)
    IN  IF k >= 0 THEN [ head |-> Upto(s, k), tail |-> From(s, k + 1) ]
        ELSE [ head |-> s, tail |-> "" ]

\* urlsplit: the scheme, when what stands before the first ":" is one.
split_scheme(url0, default_scheme) ==
    LET i == Find(url0, ":", 0)
    IN  IF /\ i > 0
           /\ Contains(CharAt(url0, 0), LowerCase \o UpperCase)
           /\ \A k \in 0 .. (i - 1) : Contains(CharAt(url0, k), scheme_chars)
        THEN [ scheme |-> Lower(Upto(url0, i)), rest |-> From(url0, i + 1) ]
        ELSE [ scheme |-> default_scheme, rest |-> url0 ]

\* urlsplit: the netloc, when the rest starts with "//".
split_netloc(url1) ==
    IF Upto(url1, 2) = "//" THEN splitnetloc(url1)
    ELSE [ netloc |-> "", rest |-> url1 ]

\* urlsplit: the result, from the rest cut at "#" (f); error stands for the
\* ValueError("Invalid IPv6 URL") that an unbalanced bracket in the netloc
\* raises.
split_result(scheme, netloc, f) ==
    [ scheme |-> scheme, netloc |-> netloc,
      path |-> partition(f.head, "?").head,
      query |-> partition(f.head, "?").tail,
      fragment |-> f.tail,
      error |-> Contains("[", netloc) # Contains("]", netloc) ]

split_after_netloc(scheme, nl) ==
    split_result(scheme, nl.netloc, partition(nl.rest, "#"))

split_after_scheme(ss) == split_after_netloc(ss.scheme, split_netloc(ss.rest))

\* urlsplit(url, scheme).
urlsplit(url0, default_scheme) ==
    split_after_scheme(split_scheme(url0, default_scheme))

\* _splitparams(url), called when ";" is in url.
splitparams(url) ==
    LET i == IF Contains("/", url) THEN Find(url, ";", RFind(url, "/"))
             ELSE Find(url, ";", 0)
    IN  IF i < 0 THEN [ path |-> url, params |-> "" ]
        ELSE [ path |-> Upto(url, i), params |-> From(url, i + 1) ]

\* urlparse: the six components from the five of urlsplit (split).
with_params(split) ==
    LET p == IF split.scheme \in uses_params /\ Contains(";", split.path)
             THEN splitparams(split.path)
             ELSE [ path |-> split.path, params |-> "" ]
    IN  [ scheme |-> split.scheme, netloc |-> split.netloc, path |-> p.path,
          params |-> p.params, query |-> split.query,
          fragment |-> split.fragment, error |-> split.error ]

\* urlparse(url, scheme).
urlparse2(url, default_scheme) == with_params(urlsplit(url, default_scheme))

urlparse(url) == urlparse2(url, "")

\* urlunparse((scheme, netloc, path, params, query, fragment)).
urlunparse(scheme, netloc, path, params, query, fragment) ==
    LET url0 == IF params # "" THEN path \o ";" \o params ELSE path
        url1 == IF netloc # ""
                   \/ (scheme # "" /\ scheme \in uses_netloc
                         /\ Upto(url0, 2) # "//")
                THEN "//" \o netloc
                        \o (IF url0 # "" /\ Upto(url0, 1) # "/"
                            THEN "/" \o url0 ELSE url0)
                ELSE url0
        url2 == IF scheme # "" THEN scheme \o ":" \o url1 ELSE url1
        url3 == IF query # "" THEN url2 \o "?" \o query ELSE url2
    IN  IF fragment # "" THEN url3 \o "#" \o fragment ELSE url3

\* The dot-segment loop of urljoin over the sequence segments.
RECURSIVE resolve_segments(_, _)
resolve_segments(segments, resolved_path) ==
    IF segments = << >> THEN resolved_path
    ELSE LET seg == Head(segments)
         IN  resolve_segments(Tail(segments),
                 IF seg = ".."
                 THEN (IF resolved_path = << >> THEN << >>
                       ELSE SubSeq(resolved_path, 1, Len(resolved_path) - 1))
                 ELSE IF seg = "." THEN resolved_path
                 ELSE Append(resolved_path, seg))

\* segments[1:-1] = filter(None, segments[1:-1]).
drop_empty_inner(segments) ==
    IF Len(segments) < 2 THEN segments
    ELSE << segments[1] >>
            \o SelectSeq(SubSeq(segments, 2, Len(segments) - 1),
                         LAMBDA x : x # "")
            \o << segments[Len(segments)] >>

\* The string that marks a raised exception where a string is expected.
Raised == "<raised>"

\* urljoin: base_parts, the segments of the base path without the last one
\* when that is not empty (bp is bpath.split('/')).
base_parts(bp) ==
    IF bp[Len(bp)] # "" THEN SubSeq(bp, 1, Len(bp) - 1) ELSE bp

\* urljoin: segments, for the path of the base and the path of the url.
join_segments(bpath, path) ==
    IF Upto(path, 1) = "/" THEN Split(path, "/")
    ELSE drop_empty_inner(base_parts(Split(bpath, "/")) \o Split(path, "/"))

\* urljoin: resolved_path, with the trailing "" a last "." or ".." leaves.
resolved_path_of(segments) ==
    IF segments[Len(segments)] \in { ".", ".." }
    THEN Append(resolve_segments(segments, << >>), "")
    ELSE resolve_segments(segments, << >>)

\* urljoin: '/'.join(resolved_path) or '/'.
joined_or_root(joined) == IF joined = "" THEN "/" ELSE joined

join_path(bpath, path) ==
    joined_or_root(Join(resolved_path_of(join_segments(bpath, path)), "/"))

\* urljoin, with both urls parsed (b, u).
urljoin_parsed(url, b, u) ==
    IF u.error THEN Raised
    ELSE IF u.scheme # b.scheme \/ u.scheme \notin uses_relative THEN url
    ELSE IF u.scheme \in uses_netloc /\ u.netloc # ""
         THEN urlunparse(u.scheme, u.netloc, u.path, u.params,
                         u.query, u.fragment)
    ELSE IF u.path = "" /\ u.params = ""
         THEN urlunparse(u.scheme,
                         IF u.scheme \in uses_netloc THEN b.netloc ELSE u.netloc,
                         b.path, b.params,
                         IF u.query = "" THEN b.query ELSE u.query,
                         u.fragment)
    ELSE urlunparse(u.scheme,
                    IF u.scheme \in uses_netloc THEN b.netloc ELSE u.netloc,
                    join_path(b.path, u.path), u.params, u.query, u.fragment)

\* urljoin, with the base parsed (b).
urljoin_base(url, b) ==
    IF b.error THEN Raised
    ELSE urljoin_parsed(url, b, urlparse2(url, b.scheme))

\* urljoin(base, url); Raised when urlparse raises.
urljoin(base, url) ==
    IF base = "" THEN url
    ELSE IF url = "" THEN base
    ELSE urljoin_base(url, urlparse(base))

(***************************************************************************)
(* config.py                                                               *)
(***************************************************************************)

BASE_URL == "https://angular.dev"
DOCS_BASE_URL == urljoin(BASE_URL, "/docs")

\* os.getcwd() is the directory every path below is relative to.
OUTPUT_DIR == "angular_docs"
DOCS_DIR == OUTPUT_DIR \o "/" \o "documentation"
ASSETS_DIR == OUTPUT_DIR \o "/" \o "assets"

MAX_FILE_SIZE == 10 * 1024 * 1024

EXCLUDE_PATTERNS ==
    << "/api/", "/playground/", "/tutorial/playground", ".pdf", ".zip",
       ".tar.gz", "mailto:", "javascript:", "#" >>

PRIORITY_SECTIONS ==
    << "/docs/overview", "/docs/tutorials", "/docs/guide", "/docs/api",
       "/docs/cli", "/docs/reference" >>

(***************************************************************************)
(* The pure methods of AngularDocsCrawler and utils.py.                    *)
(***************************************************************************)

\* is_valid_url after "parsed = urlparse(url)".
is_valid_parsed(url, parsed) ==
    IF parsed.netloc # ""
       /\ parsed.netloc \notin { "angular.dev", "www.angular.dev" }
    THEN FALSE
    ELSE IF \E k \in 1 .. Len(EXCLUDE_PATTERNS) :
                Contains(EXCLUDE_PATTERNS[k], url)
    THEN FALSE
    ELSE IF ~Contains("/docs", url) /\ url # BASE_URL
    THEN FALSE
    ELSE TRUE

\* is_valid_url(url), for a url that urlparse accepts.
is_valid_url(url) == is_valid_parsed(url, urlparse(url))

\* The fragment kept: the url is rebuilt from all six parts.
normalize_parsed_with_fragment(parsed) ==
    IF parsed.error THEN Raised
    ELSE urlunparse(parsed.scheme, parsed.netloc, parsed.path,
                    parsed.params, parsed.query, parsed.fragment)

\* normalize_url(url): the url rebuilt from its parts without the fragment;
\* Raised when urlparse raises.
normalize_parsed(parsed) ==
    IF parsed.error THEN Raised
    ELSE urlunparse(parsed.scheme, parsed.netloc, parsed.path,
                    parsed.params, parsed.query, "")

normalize_url(url) == normalize_parsed(urlparse(url))

\* One href of a page in extract_links_from_page: the normalized absolute
\* url, Raised when urljoin or normalize_url raises.
normalize_joined(full_url) ==
    IF full_url = Raised THEN Raised ELSE normalize_url(full_url)

resolve_href(base_url, href) == normalize_joined(urljoin(base_url, href))

\* extract_links_from_page: normalized_url of every a/link element, for a
\* page whose elements carry the hrefs in the set hrefs.
normalized_urls(hrefs, base_url) ==
    { resolve_href(base_url, href) : href \in hrefs }

\* extract_links_from_page, given the normalized urls of the elements:
\* whether it raises and, when it does not, the set links it returns.
links_of(normalized) ==
    [ raises |-> Raised \in normalized,
      links |-> IF Raised \in normalized THEN {}
                ELSE { u \in normalized : is_valid_url(u) } ]

\* extract_links_from_page(html_content, base_url).
extract_links_from_page(hrefs, base_url) ==
    links_of(normalized_urls(hrefs, base_url))

\* os.path.splitext(p): << root, ext >>.
splitext(p) ==
    LET sepIndex == RFind(p, "/")
        dotIndex == RFind(p, ".")
        lead == { k \in (sepIndex + 1) .. (dotIndex - 1) : CharAt(p, k) # "." }
    IN  IF dotIndex > sepIndex /\ lead # {}
        THEN << Upto(p, dotIndex), From(p, dotIndex) >>
        ELSE << p, "" >>

\* The characters re.sub(r'[<>:"/\\|?*]', '_', filename) replaces, and the
\* control characters the second re.sub removes that a TLA+ string can hold.
InvalidChars == "<>:\"/\\|?*"
ControlChars == "\t\n\r\f"

RECURSIVE sub_chars(_)
sub_chars(s) ==
    IF s = "" THEN ""
    ELSE LET c == CharAt(s, 0)
         IN  (IF Contains(c, InvalidChars) THEN "_"
              ELSE IF Contains(c, ControlChars) THEN ""
              ELSE c) \o sub_chars(From(s, 1))

\* sanitize_filename(filename).
\* sanitize_filename: "name[:255 - len(ext)] + ext" for << name, ext >>.
truncate_name(se) == Upto(se[1], 255 - Len(se[2])) \o se[2]

\* sanitize_filename: "return filename or 'index.html'".
or_index(filename) == IF filename = "" THEN "index.html" ELSE filename

\* sanitize_filename after the two re.sub calls.
limit_length(filename) ==
    or_index(IF Len(filename) > 255 THEN truncate_name(splitext(filename))
             ELSE filename)

\* sanitize_filename(filename).
sanitize_filename(filename) == limit_length(sub_chars(filename))

\* save_page: path_parts, the non-empty segments of the url's path.
path_parts(url) ==
    SelectSeq(Split(urlparse(url).path, "/"), LAMBDA part : part # "")

\* save_page: the file name before it is sanitized.
page_filename(parts) ==
    IF parts = << >> \/ parts[Len(parts)] = "docs" THEN "index.html"
    ELSE parts[Len(parts)] \o ".html"

\* The directory structure left out: every page lies in DOCS_DIR.
page_dir_path_flat(parts) == DOCS_DIR

\* save_page: dir_path, os.path.join of DOCS_DIR and all parts but the last.
page_dir_path(parts) ==
    IF Len(parts) > 1
    THEN Join(<< DOCS_DIR >> \o SubSeq(parts, 1, Len(parts) - 1), "/")
    ELSE DOCS_DIR

\* The duplicate-name loop left out: save_page writes to original_path.
free_path_unchecked(file_path, original_path, counter, existing) == file_path

\* save_page: the duplicate-name loop, from its counter on; existing is
\* every path for which os.path.exists holds.
RECURSIVE free_path(_, _, _, _)
free_path(file_path, original_path, counter, existing) ==
    IF file_path \notin existing THEN file_path
    ELSE LET se == splitext(original_path)
         IN  free_path(se[1] \o "_" \o ToString(counter) \o se[2],
                       original_path, counter + 1, existing)

\* The directory path and every ancestor of it: what
\* Path(path).mkdir(parents=True, exist_ok=True) creates or finds.
RECURSIVE with_parents(_)
with_parents(path) ==
    LET i == RFind(path, "/")
    IN  IF i <= 0 THEN { path } ELSE { path } \cup with_parents(Upto(path, i))

\* ensure_directory(path) raises when the path or an ancestor of it, the
\* set parents, holds a regular file.
ensure_directory_raises(parents, existing_files) ==
    parents \cap existing_files # {}

\* save_page, given dir_path and the sanitized filename: the directories
\* ensure_directory(dir_path) makes, and file_path before the duplicate-name
\* loop.
page_paths_in(dir_path, filename) ==
    [ dir_path |-> dir_path,
      parents |-> with_parents(dir_path),
      original_path |-> dir_path \o "/" \o filename ]

\* save_page up to the duplicate-name loop, from path_parts on.
page_paths(parts) ==
    page_paths_in(page_dir_path(parts), sanitize_filename(page_filename(parts)))

(***************************************************************************)
(* Bounds of the model and the inputs the environment draws from.          *)
(***************************************************************************)

\* At most this many faults of the environment in one run: a failed, empty
\* or oversized response, a failed write of a page file.
MaxFaults == 2

\* The site: the hrefs of the a and link elements of each page that has any.
SiteHrefs(u) ==
    CASE u = "https://angular.dev" ->
           { "/docs/guide", "https://angular.dev/docs/guide#install",
             "/playground/x", "https://example.com/docs", "/search?q=/docs" }
      [] u = "https://angular.dev/docs" ->
           { "guide#install", "/docs/overview.html/x",
             "mailto:team@angular.dev" }
      [] u = "https://angular.dev/docs/cli" ->
           { "/docs/guide", "http://[" }
      [] OTHER -> {}

\* The pages of the site whose request or whose write to disk may fail.
FlakyPages ==
    { "https://angular.dev/docs", "https://angular.dev/docs/guide" }

\* len(response.content) of a response: empty, at the ceiling, over it.
BodySizes == { 0, MAX_FILE_SIZE, MAX_FILE_SIZE + 1 }

\* What session.get(url) and raise_for_status() give download_page:
\* status "error" is any raised exception (transport, timeout, HTTP status).
NoResponse == [ status |-> "none", size |-> 0, hrefs |-> {} ]

IsFault(resp) ==
    resp.status = "error" \/ resp.size = 0 \/ resp.size > MAX_FILE_SIZE

\* The responses the site may give for u: the page with its hrefs or, served
\* bare, with none; for a flaky page also an error, an empty body and an
\* oversized body.
Responses(u) ==
    { [ status |-> "ok", size |-> MAX_FILE_SIZE, hrefs |-> h ] :
        h \in { {}, SiteHrefs(u) } }
      \cup (IF u \in FlakyPages
            THEN { [ status |-> "error", size |-> 0, hrefs |-> {} ] }
                   \cup { [ status |-> "ok", size |-> n, hrefs |-> SiteHrefs(u) ] :
                            n \in BodySizes }
            ELSE {})

\* The <loc> lists of the sitemaps the site may serve.
SitemapBodies ==
    { << >>,
      << "https://angular.dev/docs/overview", "https://angular.dev/docs/x#y",
         "http://[" >>,
      << "https://angular.dev/docs/install",
         "https://angular.dev/playground/x" >> }

\* What session.get(sitemap_url) gives discover_urls_from_sitemap.
SitemapResponses ==
    { [ kind |-> "raise", locs |-> << >> ],
      [ kind |-> "status", locs |-> << >> ] }
      \cup { [ kind |-> "200", locs |-> b ] : b \in SitemapBodies }

\* The "for loc in soup.find_all('loc')" loop over locs from entry k on:
\* the urls added, and whether is_valid_url raised on the way.
RECURSIVE scan_locs(_, _, _)
scan_locs(locs, k, found) ==
    IF k > Len(locs) THEN [ found |-> found, raised |-> FALSE ]
    ELSE IF urlparse(locs[k]).error THEN [ found |-> found, raised |-> TRUE ]
    ELSE scan_locs(locs, k + 1,
                   IF is_valid_url(locs[k])
                   THEN found \cup { normalize_url(locs[k]) } ELSE found)

\* crawl(): initial_urls, from which the list urls_to_process is made.
initial_urls(sitemap_found) ==
    { BASE_URL, DOCS_BASE_URL }
      \cup { urljoin(BASE_URL, PRIORITY_SECTIONS[k]) :
               k \in 1 .. Len(PRIORITY_SECTIONS) }
      \cup sitemap_found

(***************************************************************************)
(* The urls a run can meet, and the pure functions tabulated over them:    *)
(* TLC evaluates each table once instead of once per state.                *)
(***************************************************************************)

\* The links extract_links_from_page finds on the page of u served with its
\* hrefs; none when it raises.
site_links(u) == extract_links_from_page(SiteHrefs(u), u).links

\* Every url a sitemap of SitemapBodies can add to discovered_urls.
SitemapFound ==
    UNION { scan_locs(b, 1, {}).found : b \in SitemapBodies }

\* The urls of S and the links of their pages.
with_links(S) == S \cup UNION { site_links(u) : u \in S }

RECURSIVE LinkClosure(_)
closure_step(S, T) == IF T = S THEN S ELSE LinkClosure(T)

LinkClosure(S) == closure_step(S, with_links(S))

Universe == LinkClosure(initial_urls(SitemapFound))

LinkTable ==
    [ u \in Universe |-> extract_links_from_page(SiteHrefs(u), u) ]

SaveTable == [ u \in Universe |-> page_paths(path_parts(u)) ]

(***************************************************************************)
(* The state.                                                              *)
(***************************************************************************)

VARIABLES
    pc,                \* where main() and crawl() stand
    exit_code,         \* what main() returned, -1 while it runs
    raised,            \* the exception main() caught, "none" when none
    files,             \* the regular files on disk (paths)
    dirs,              \* the directories on disk (paths)
    visited_urls,      \* self.visited_urls
    failed_urls,       \* self.failed_urls
    downloaded_files,  \* self.downloaded_files: url -> file path
    urls_to_process,   \* crawl's list, as a sequence of batches (see pop_url)
    processed_count,   \* crawl's processed_count
    crawl_url,         \* crawl's url, the one in flight
    response,          \* the response download_page got for url
    content,           \* crawl's content
    save_result,       \* what save_page returned for url, "none" before it
    sitemap_index,     \* the candidate discover_urls_from_sitemap is at
    discovered_urls,   \* discover_urls_from_sitemap's discovered_urls
    summary,           \* the summary written to crawl_summary.json
    download_calls,    \* history: how often download_page(u) was called
    save_failures,     \* history: the urls whose write in save_page raised
    sitemap_failures,  \* history: the candidates of the running discovery
                       \* that failed (request, status or scan of the locs)
    faults,            \* history: faults of the environment so far
    probe,             \* the pure-function specifications' input and output
    output_dir,        \* main()'s args.output_dir
    crawl_log          \* history: the seeds crawl() started from, and the
                       \* hrefs of each page download_page returned text for

vars == << pc, exit_code, raised, files, dirs, visited_urls, failed_urls,
           downloaded_files, urls_to_process, processed_count, crawl_url, response,
           content, save_result, sitemap_index, discovered_urls, summary,
           download_calls, save_failures, sitemap_failures, faults, probe, output_dir,
           crawl_log >>

crawl_vars == << visited_urls, failed_urls, downloaded_files, urls_to_process,
                 processed_count >>
flight_vars == << crawl_url, response, content, save_result >>
sitemap_vars == << sitemap_index, discovered_urls, sitemap_failures >>
disk_vars == << files, dirs >>
env_vars == << faults >>

\* crawl's content: None, or the text of the page (its length, its hrefs).
None == [ none |-> TRUE, size |-> 0, hrefs |-> {} ]
Text(resp) == [ none |-> FALSE, size |-> resp.size, hrefs |-> resp.hrefs ]
\* Python's truth value of content: None and "" are false.
Truthy(c) == ~c.none /\ c.size > 0

NoSummary == [ written |-> FALSE ]
NoProbe == [ fn |-> "none" ]
EmptyMap == [ u \in {} |-> "" ]
NoLog == [ seeds |-> {}, hrefs |-> [ u \in {} |-> {} ] ]

\* "--output-dir" given on the command line.
OutputDirOverride == "custom_docs"

\* main() after parse_args(), with args.output_dir = dir.
main_starts(dir) ==
    /\ output_dir = dir
    /\ pc = "main"
    /\ exit_code = -1
    /\ raised = "none"
    /\ files = {}
    /\ dirs = {}
    /\ visited_urls = {}
    /\ failed_urls = {}
    /\ downloaded_files = EmptyMap
    /\ urls_to_process = << >>
    /\ processed_count = 0
    /\ crawl_url = ""
    /\ response = NoResponse
    /\ content = None
    /\ save_result = "none"
    /\ sitemap_index = 1
    /\ discovered_urls = {}
    /\ summary = NoSummary
    /\ download_calls = [ u \in {} |-> 0 ]
    /\ save_failures = {}
    /\ sitemap_failures = 0
    /\ faults = 0
    /\ probe = NoProbe
    /\ crawl_log = NoLog

\* main() called without "--output-dir": the default is OUTPUT_DIR.
Init == main_starts(OUTPUT_DIR)

\* main() called with "--output-dir custom_docs".
OverrideInit == main_starts(OutputDirOverride)

(***************************************************************************)
(* main() and AngularDocsCrawler.__init__                                  *)
(***************************************************************************)

\* The locals of one turn of crawl()'s loop, when the turn is over.
clear_flight ==
    /\ crawl_url' = ""
    /\ response' = NoResponse
    /\ content' = None
    /\ save_result' = "none"

\* An exception leaves the constructor or crawl(): main()'s "except
\* KeyboardInterrupt" or "except Exception" prints a notice and returns 1.
\* The frames it unwinds take the locals of crawl() and of
\* discover_urls_from_sitemap() with them; the crawler object stays.
main_catches(exception) ==
    /\ raised' = exception
    /\ pc' = "exit"
    /\ exit_code' = 1
    /\ urls_to_process' = << >>
    /\ processed_count' = 0
    /\ clear_flight
    /\ sitemap_index' = 1
    /\ discovered_urls' = {}
    /\ sitemap_failures' = 0

obj_vars == << visited_urls, failed_urls, downloaded_files >>

\* AngularDocsCrawler(): the three ensure_directory calls. They create the
\* output directories, or one raises and main() returns 1.
construct ==
    /\ pc = "main"
    /\ \/ /\ dirs' = dirs \cup with_parents(DOCS_DIR) \cup with_parents(ASSETS_DIR)
          /\ pc' = "discover"
          /\ UNCHANGED << exit_code, raised, urls_to_process, processed_count,
                          flight_vars, sitemap_vars >>
       \/ /\ main_catches("OSError")
          /\ UNCHANGED dirs
    /\ UNCHANGED << files, obj_vars, summary, download_calls,
                    save_failures, env_vars, probe, output_dir, crawl_log >>

(***************************************************************************)
(* discover_urls_from_sitemap                                              *)
(***************************************************************************)

sitemap_urls ==
    << urljoin(BASE_URL, "/sitemap.xml"), urljoin(BASE_URL, "/sitemap_index.xml"),
       urljoin(BASE_URL, "/docs/sitemap.xml") >>

\* One turn of "for sitemap_url in sitemap_urls": the request raises or has
\* a status other than 200 (next candidate), or its locs are scanned (break,
\* or next candidate when the scan raised).
discover_urls_from_sitemap ==
    /\ pc = "discover"
    /\ sitemap_index <= Len(sitemap_urls)
    /\ \E r \in SitemapResponses :
          LET scan == scan_locs(r.locs, 1, discovered_urls)
              break == r.kind = "200" /\ ~scan.raised
          IN  /\ discovered_urls' =
                    IF r.kind = "200" THEN scan.found ELSE discovered_urls
              /\ sitemap_index' =
                    IF break THEN Len(sitemap_urls) + 1 ELSE sitemap_index + 1
              /\ sitemap_failures' =
                    IF break THEN sitemap_failures ELSE sitemap_failures + 1
    /\ UNCHANGED << pc, exit_code, raised, disk_vars, crawl_vars, flight_vars,
                    summary, download_calls,
                    save_failures, env_vars, probe, output_dir, crawl_log >>

\* crawl() after the discovery returned (its locals are gone):
\* urls_to_process = list(initial_urls).
start_crawl ==
    /\ pc = "discover"
    /\ sitemap_index > Len(sitemap_urls)
    /\ urls_to_process' = << initial_urls(discovered_urls) >>
    /\ crawl_log' = [ crawl_log EXCEPT !.seeds = initial_urls(discovered_urls) ]
    /\ processed_count' = 0
    /\ sitemap_index' = 1
    /\ discovered_urls' = {}
    /\ sitemap_failures' = 0
    /\ pc' = "loop"
    /\ UNCHANGED << exit_code, raised, disk_vars, visited_urls, failed_urls,
                    downloaded_files, flight_vars, summary, download_calls,
                    save_failures, env_vars, probe, output_dir >>

(***************************************************************************)
(* crawl(): the loop.                                                      *)
(*                                                                         *)
(* urls_to_process is a Python list built from sets: list(initial_urls),   *)
(* and the links of each page appended in the iteration order of the set   *)
(* new_links. That order is not fixed by the program (string hashes differ *)
(* from run to run), so the list is kept here as the sequence of those     *)
(* sets ("batches"): batches leave in the order they were appended, and    *)
(* pop(0) takes any url of the first batch.                                *)
(***************************************************************************)

\* The visited test left out: every popped url is fetched.
skip_url_never(u) == FALSE

\* "if url in self.visited_urls: continue".
skip_url(u) == u \in visited_urls

\* "self.visited_urls.add(url)" left out: the popped url goes to download_page
\* unmarked.
pop_url_unmarked ==
    /\ pc = "loop"
    /\ urls_to_process # << >>
    /\ \E u \in Head(urls_to_process) :
          /\ urls_to_process' =
                IF Head(urls_to_process) = { u } THEN Tail(urls_to_process)
                ELSE << Head(urls_to_process) \ { u } >> \o Tail(urls_to_process)
          /\ IF skip_url(u)
             THEN UNCHANGED << pc, crawl_url >>
             ELSE /\ crawl_url' = u
                  /\ pc' = "download"
    /\ UNCHANGED << exit_code, raised, disk_vars, visited_urls, failed_urls,
                    downloaded_files, processed_count, response, content,
                    save_result, sitemap_vars, summary, download_calls,
                    save_failures, env_vars, probe, output_dir, crawl_log >>

\* "while urls_to_process: url = urls_to_process.pop(0)", the visited test
\* and "self.visited_urls.add(url)".
pop_url ==
    /\ pc = "loop"
    /\ urls_to_process # << >>
    /\ \E u \in Head(urls_to_process) :
          /\ urls_to_process' =
                IF Head(urls_to_process) = { u } THEN Tail(urls_to_process)
                ELSE << Head(urls_to_process) \ { u } >> \o Tail(urls_to_process)
          /\ IF skip_url(u)
             THEN UNCHANGED << pc, visited_urls, crawl_url >>
             ELSE /\ visited_urls' = visited_urls \cup { u }
                  /\ crawl_url' = u
                  /\ pc' = "download"
    /\ UNCHANGED << exit_code, raised, disk_vars, failed_urls, downloaded_files,
                    processed_count, response, content, save_result,
                    sitemap_vars, summary, download_calls,
                    save_failures, env_vars, probe, output_dir, crawl_log >>

\* The size test left out: an oversized body is returned as text.
download_page_returns_any_size(resp) ==
    IF resp.status = "error" THEN None ELSE Text(resp)

\* download_page(url): what it returns for the response resp.
download_page_returns(resp) ==
    IF resp.status = "error" THEN None
    ELSE IF resp.size > MAX_FILE_SIZE THEN None
    ELSE Text(resp)

\* failed_urls.add(url) moved out of the except block: every fetch adds.
download_page_failed_always(resp, u) == failed_urls \cup { u }

\* download_page(url): what self.failed_urls is after it, for the response.
download_page_failed(resp, u) ==
    IF resp.status = "error" THEN failed_urls \cup { u } ELSE failed_urls

\* crawl_log once download_page has returned c for url: the hrefs of a text
\* that is not empty are kept.
logged(c) ==
    IF Truthy(c)
    THEN [ crawl_log EXCEPT !.hrefs =
             [ u \in DOMAIN crawl_log.hrefs \cup { crawl_url } |->
                 IF u = crawl_url THEN c.hrefs ELSE crawl_log.hrefs[u] ] ]
    ELSE crawl_log

\* "content = self.download_page(url)".
download_page ==
    /\ pc = "download"
    /\ \E resp \in Responses(crawl_url) :
          /\ IsFault(resp) => faults < MaxFaults
          /\ faults' = IF IsFault(resp) THEN faults + 1 ELSE faults
          /\ response' = resp
          /\ content' = download_page_returns(resp)
          /\ failed_urls' = download_page_failed(resp, crawl_url)
          /\ crawl_log' = logged(download_page_returns(resp))
    /\ download_calls' =
          [ u \in DOMAIN download_calls \cup { crawl_url } |->
              IF u = crawl_url
              THEN (IF u \in DOMAIN download_calls THEN download_calls[u] + 1
                    ELSE 1)
              ELSE download_calls[u] ]
    /\ pc' = "downloaded"
    /\ UNCHANGED << exit_code, raised, disk_vars, visited_urls,
                    downloaded_files, urls_to_process, processed_count, crawl_url,
                    save_result, sitemap_vars, summary, save_failures, probe,
                    output_dir >>

\* "if content:" - the page goes on to save_page, or the loop goes on.
check_content ==
    /\ pc = "downloaded"
    /\ IF Truthy(content)
       THEN /\ pc' = "save"
            /\ UNCHANGED flight_vars
       ELSE /\ pc' = "loop"
            /\ clear_flight
    /\ UNCHANGED << exit_code, raised, disk_vars, crawl_vars, sitemap_vars,
                    summary, download_calls,
                    save_failures, env_vars, probe, output_dir, crawl_log >>

\* "self.downloaded_files[url] = file_path" moved before the write: the url
\* is recorded whether or not the write succeeds.
save_page_records_always(u, file_path, written) ==
    [ v \in DOMAIN downloaded_files \cup { u } |->
        IF v = u THEN file_path ELSE downloaded_files[v] ]

\* "self.downloaded_files = {url: file_path}" for the item assignment: the
\* earlier entries are dropped.
save_page_records_anew(u, file_path, written) ==
    IF written THEN [ v \in { u } |-> file_path ] ELSE downloaded_files

\* save_page: self.downloaded_files after the write, which succeeded
\* (written) or raised inside the try block.
save_page_records(u, file_path, written) ==
    IF written
    THEN [ v \in DOMAIN downloaded_files \cup { u } |->
             IF v = u THEN file_path ELSE downloaded_files[v] ]
    ELSE downloaded_files

\* The ways the environment lets the write of save_page end: it succeeds,
\* or, for a flaky page, open() raises (no file) or f.write() raises (the
\* file was created).
WriteOutcomes(u) ==
    IF u \in FlakyPages THEN { "ok", "open_raises", "write_raises" }
    ELSE { "ok" }

\* "self.save_page(url, content)". ensure_directory is outside the try block:
\* what it raises leaves save_page and crawl().
\* save_page from "with open(file_path, 'w')" on, the write ending as w.
write_page(parents, file_path, w) ==
    /\ w # "ok" => faults < MaxFaults
    /\ faults' = IF w # "ok" THEN faults + 1 ELSE faults
    /\ dirs' = dirs \cup parents
    /\ files' = IF w = "open_raises" THEN files ELSE files \cup { file_path }
    /\ downloaded_files' = save_page_records(crawl_url, file_path, w = "ok")
    /\ save_result' = IF w = "ok" THEN file_path ELSE ""
    /\ save_failures' = IF w = "ok" THEN save_failures
                        ELSE save_failures \cup { crawl_url }
    /\ pc' = "extract"
    /\ UNCHANGED << exit_code, raised, urls_to_process, processed_count,
                    crawl_url, response, content, sitemap_vars >>

\* save_page from "ensure_directory(dir_path)" on, paths being what the
\* lines before it computed.
save_page_in(paths) ==
    IF ensure_directory_raises(paths.parents, files)
    THEN /\ main_catches("OSError")
         /\ UNCHANGED << disk_vars, downloaded_files, save_failures, faults >>
    ELSE \E w \in WriteOutcomes(crawl_url) :
            write_page(paths.parents,
                       free_path(paths.original_path, paths.original_path, 1,
                                 files \cup dirs \cup paths.parents),
                       w)

save_page ==
    /\ pc = "save"
    /\ save_page_in(SaveTable[crawl_url])
    /\ UNCHANGED << visited_urls, failed_urls, summary, download_calls, probe,
                    output_dir, crawl_log >>

\* "for link in new_links: if link not in self.visited_urls: append".
new_batch(new_links) == { link \in new_links : link \notin visited_urls }

\* "new_links = self.extract_links_from_page(content, url)", the appends and
\* "processed_count += 1". What urljoin or normalize_url raises leaves crawl().
\* "urls_to_process.insert(0, link)" for append: the links go to the head.
append_links_at_head(batch) ==
    /\ urls_to_process' =
          IF batch = {} THEN urls_to_process ELSE << batch >> \o urls_to_process
    /\ processed_count' = processed_count + 1
    /\ pc' = "sleep"
    /\ UNCHANGED << exit_code, raised, flight_vars, sitemap_vars >>

\* The appends of one page to urls_to_process and "processed_count += 1".
append_links(batch) ==
    /\ urls_to_process' =
          IF batch = {} THEN urls_to_process ELSE Append(urls_to_process, batch)
    /\ processed_count' = processed_count + 1
    /\ pc' = "sleep"
    /\ UNCHANGED << exit_code, raised, flight_vars, sitemap_vars >>

\* crawl() once extract_links_from_page ended as extracted.
extract_links_in(extracted) ==
    IF extracted.raises THEN main_catches("ValueError")
    ELSE append_links(new_batch(extracted.links))

extract_links ==
    /\ pc = "extract"
    /\ extract_links_in(IF content.hrefs = {}
                        THEN [ raises |-> FALSE, links |-> {} ]
                        ELSE LinkTable[crawl_url])
    /\ UNCHANGED << disk_vars, obj_vars, summary, download_calls,
                    save_failures, env_vars, probe, output_dir, crawl_log >>

\* "time.sleep(REQUEST_DELAY)" and the progress line, which reads the state
\* and changes nothing.
rate_limit ==
    /\ pc = "sleep"
    /\ pc' = "loop"
    /\ clear_flight
    /\ UNCHANGED << exit_code, raised, disk_vars, crawl_vars, sitemap_vars,
                    summary, download_calls,
                    save_failures, env_vars, probe, output_dir, crawl_log >>

summary_path == OUTPUT_DIR \o "/" \o "crawl_summary.json"

\* The summary dictionary crawl() builds.
build_summary ==
    [ written |-> TRUE,
      total_pages |-> processed_count,
      successful_downloads |-> Cardinality(DOMAIN downloaded_files),
      failed_downloads |-> Cardinality(failed_urls),
      downloaded_files |-> downloaded_files,
      failed_urls |-> failed_urls ]

\* The loop is left with the list empty: the summary is built and written,
\* or open(summary_path) raises and the exception leaves crawl().
write_summary ==
    /\ pc = "loop"
    /\ urls_to_process = << >>
    /\ \/ /\ summary' = build_summary
          /\ files' = files \cup { summary_path }
          /\ pc' = "crawled"
          /\ UNCHANGED << exit_code, raised, urls_to_process, processed_count,
                          flight_vars, sitemap_vars >>
       \/ /\ main_catches("OSError")
          /\ UNCHANGED << summary, files >>
    /\ UNCHANGED << dirs, obj_vars, download_calls, save_failures, env_vars,
                    probe, output_dir, crawl_log >>

\* main() after crawl() returned: the printed summary, generate_instructions()
\* and "return 0"; what generate_instructions raises is caught by main().
finish ==
    /\ pc = "crawled"
    /\ \/ /\ files' = files \cup { "instructions.md" }
          /\ pc' = "exit"
          /\ exit_code' = 0
          /\ UNCHANGED << raised, urls_to_process, processed_count,
                          flight_vars, sitemap_vars >>
       \/ /\ main_catches("OSError")
          /\ UNCHANGED files
    /\ UNCHANGED << dirs, obj_vars, summary, download_calls,
                    save_failures, env_vars, probe, output_dir, crawl_log >>

\* Ctrl-C while main() runs: KeyboardInterrupt is no Exception, so neither
\* download_page nor save_page catches it; main() does.
interrupt ==
    /\ pc # "exit"
    /\ main_catches("KeyboardInterrupt")
    /\ UNCHANGED << disk_vars, obj_vars, summary, download_calls,
                    save_failures, env_vars, probe, output_dir, crawl_log >>

Next ==
    \/ construct
    \/ discover_urls_from_sitemap
    \/ start_crawl
    \/ pop_url
    \/ download_page
    \/ check_content
    \/ save_page
    \/ extract_links
    \/ rate_limit
    \/ write_summary
    \/ finish
    \/ interrupt

Spec == Init /\ [][Next]_vars

\* The run with the output directory overridden.
OverrideSpec == OverrideInit /\ [][Next]_vars

(***************************************************************************)
(* The pure functions on their own: is_valid_url applied to a url drawn    *)
(* from ProbeUrls, the argument and the result kept in probe.              *)
(***************************************************************************)

ProbePrefixes ==
    { "", "https://angular.dev", "http://www.angular.dev",
      "https://example.com", "https://angular.dev:443", "https://ANGULAR.DEV" }

ProbePaths ==
    { "", "/", "/docs", "/docs/overview", "/guide", "/docs/api/core",
      "/playground/x", "/documents" }

ProbeSuffixes == { "", "?q=/docs", "#top", ".pdf" }

ProbeUrls ==
    { p \o q \o r : p \in ProbePrefixes, q \in ProbePaths, r \in ProbeSuffixes }

\* is_valid_url tabulated over ProbeUrls: evaluated once, not once per step.
ValidTable == [ u \in ProbeUrls |-> is_valid_url(u) ]

probe_is_valid_url ==
    /\ \E u \in ProbeUrls :
          probe' = [ fn |-> "is_valid_url", arg |-> u, result |-> ValidTable[u] ]
    /\ UNCHANGED << pc, exit_code, raised, disk_vars, crawl_vars, flight_vars,
                    sitemap_vars, summary, download_calls, save_failures,
                    env_vars, output_dir, crawl_log >>

\* The urls save_page is probed with: paths of no, one and several
\* segments, ending in the marker "docs" or not, with and without a query,
\* a fragment or characters sanitize_filename replaces.
SavePagePaths ==
    { "", "/", "/docs", "/docs/", "/guide", "/docs/guide", "/guide/docs",
      "/docs/guide/docs", "/docs/a/b", "//docs//x/", "/docs/a:b", "/docs/docs",
      "/documents", "/docs/a.b/c.d" }

SavePageSuffixes == { "", "?q=/docs", "#top", ";v=1" }

SavePageUrls ==
    { p \o q \o r : p \in { "https://angular.dev", "https://www.angular.dev" },
                    q \in SavePagePaths, r \in SavePageSuffixes }

SavePageTable == [ u \in SavePageUrls |-> page_paths(path_parts(u)) ]

\* save_page(url, content) up to the duplicate-name loop, called on its own.
probe_save_page ==
    /\ \E u \in SavePageUrls :
          probe' = [ fn |-> "save_page", arg |-> u, result |-> SavePageTable[u] ]
    /\ UNCHANGED << pc, exit_code, raised, disk_vars, crawl_vars, flight_vars,
                    sitemap_vars, summary, download_calls, save_failures,
                    env_vars, output_dir, crawl_log >>

\* The urls normalize_url is probed with: each stem, which holds no "#",
\* followed by each fragment.
NormalizeStems ==
    { "", "docs", "/docs/guide", "//angular.dev/docs", "https://angular.dev",
      "https://angular.dev/docs/guide", "https://www.angular.dev/docs/",
      "https://angular.dev/docs?x=1", "https://angular.dev/docs?",
      "https://angular.dev/docs;p?x", "https://angular.dev/docs;",
      "HTTPS://Angular.dev/Docs", "mailto:team@angular.dev", "http://[",
      "https:docs", "https:////angular.dev/docs" }

ProbeFragments == { "", "#", "#top", "#a#b", "#/docs?x" }

NormalizeUrls == { p \o q : p \in NormalizeStems, q \in ProbeFragments }

\* normalize_url(url), and normalize_url of what it returned.
normalized_twice(normalized) ==
    [ result |-> normalized, again |-> normalize_joined(normalized) ]

NormalizeTable == [ u \in NormalizeUrls |-> normalized_twice(normalize_url(u)) ]

\* normalize_url(url) called on its own, and once more on what it returned.
probe_normalize_url ==
    /\ \E u \in NormalizeUrls :
          probe' = [ fn |-> "normalize_url", arg |-> u,
                     result |-> NormalizeTable[u].result,
                     again |-> NormalizeTable[u].again ]
    /\ UNCHANGED << pc, exit_code, raised, disk_vars, crawl_vars, flight_vars,
                    sitemap_vars, summary, download_calls, save_failures,
                    env_vars, output_dir, crawl_log >>

PureNext ==
    \/ probe_is_valid_url
    \/ probe_save_page
    \/ probe_normalize_url

PureSpec == Init /\ [][PureNext]_vars

(***************************************************************************)
(* The claims.                                                             *)
(***************************************************************************)

\* The urls in crawl's list urls_to_process.
Frontier == UNION { urls_to_process[k] : k \in 1 .. Len(urls_to_process) }

\* The steps of crawl()'s while loop.
LoopPcs == { "loop", "download", "downloaded", "save", "extract", "sleep" }

\* The host of a netloc: without user information and port, in lower case.
hostname(netloc) ==
    LET at == RFind(netloc, "@")
        hostport == IF at >= 0 THEN From(netloc, at + 1) ELSE netloc
        colon == Find(hostport, ":", 0)
    IN  Lower(IF colon >= 0 THEN Upto(hostport, colon) ELSE hostport)

\* Admissibility as the specification words it: the host, when present, is
\* an allowed host; the raw url holds no exclude substring; the path holds
\* the documentation-root marker or the url is the base url.
Admissible(u) ==
    LET parsed == urlparse(u)
        host == hostname(parsed.netloc)
    IN  /\ host = "" \/ host \in { "angular.dev", "www.angular.dev" }
        /\ \A k \in 1 .. Len(EXCLUDE_PATTERNS) : ~Contains(EXCLUDE_PATTERNS[k], u)
        /\ Contains("/docs", parsed.path) \/ u = BASE_URL

\* C1: in a run of crawl(), download_page is called at most once for a url,
\* however often the url sits in the list, however many pages link to it
\* (with or without a fragment), and whether its fetch succeeded or failed.
C1_FetchedAtMostOnce ==
    \A u \in DOMAIN download_calls : download_calls[u] <= 1

\* C1's case: a url whose only fetch failed sits in the list once more (it
\* was a seed and a page linked to it), and is not fetched again.
C1_FailedUrlQueuedAgain ==
    \E u \in failed_urls : download_calls[u] = 1 /\ u \in Frontier

\* C2: in every reachable state no url is both a key of downloaded_files and
\* a member of failed_urls.
C2_DownloadedAndFailedDisjoint ==
    DOMAIN downloaded_files \cap failed_urls = {}

\* C2's case: the crawl ended with a saved page and with a failed one.
C2_BothKindsRecorded ==
    /\ pc = "crawled"
    /\ DOMAIN downloaded_files # {}
    /\ failed_urls # {}

\* C3: when the fetch of a url returns a body larger than MAX_FILE_SIZE, the
\* url is in failed_urls once download_page has returned.
C3_OversizedIsFailed ==
    (pc = "downloaded" /\ response.status = "ok"
        /\ response.size > MAX_FILE_SIZE)
        => crawl_url \in failed_urls

\* C4: when the crawl has ended, every visited url is a key of
\* downloaded_files or a member of failed_urls.
C4_VisitedSavedOrFailed ==
    pc = "crawled"
        => \A u \in visited_urls :
               u \in DOMAIN downloaded_files \/ u \in failed_urls

\* C5: the loop of crawl() is left only with the list empty: no step other
\* than an interrupt takes the program out of the loop while urls remain.
C5_LoopEndsOnlyWhenEmpty ==
    [][ (pc \in LoopPcs /\ pc' \notin LoopPcs /\ raised' # "KeyboardInterrupt")
            => urls_to_process = << >> ]_vars

\* C6: when an interrupt has stopped a crawl that had begun to visit urls,
\* crawl_summary.json has been written.
C6_InterruptWritesSummary ==
    (raised = "KeyboardInterrupt" /\ visited_urls # {})
        => summary_path \in files

\* C7: no error of save_page or of the link extraction for one url leaves
\* crawl(): from these steps the program reaches main()'s except branch
\* only by an interrupt.
C7_PerUrlErrorsStayLocal ==
    [][ (pc \in { "save", "extract" } /\ pc' = "exit")
            => raised' = "KeyboardInterrupt" ]_vars

\* C8: a url whose write to disk failed is not a key of downloaded_files, is
\* not fetched a second time, and the loop goes on after the failed write.
C8_SaveFailureNotRecorded ==
    /\ \A u \in save_failures :
          u \notin DOMAIN downloaded_files /\ download_calls[u] = 1
    /\ save_result = "" => crawl_url \in save_failures /\ pc \in LoopPcs

\* C8's case: after the write of one page failed, a later page was fetched
\* and saved.
C8_CrawlWentOnAfterSaveFailure ==
    /\ pc = "extract"
    /\ save_result \notin { "", "none" }
    /\ save_failures # {}
    /\ crawl_url \notin save_failures

\* C9: every url in the list or visited is admissible and normalized: a
\* link with an exclude substring, a foreign host, or a path outside the
\* documentation root never enters the list and is never fetched.
C9_OnlyAdmissibleUrlsQueued ==
    \A u \in Frontier \cup visited_urls :
        Admissible(u) /\ normalize_url(u) = u

\* C10: is_valid_url(url) is false when the host is present and not allowed,
\* when the raw url holds an exclude substring, or when the path lacks the
\* documentation-root marker and the url is not the base url; true otherwise.
C10_IsValidUrlAsSpecified ==
    probe.fn = "is_valid_url" => probe.result = Admissible(probe.arg)

\* save_page: f"{name}_{counter}{ext}" for << name, ext >>.
numbered_name(se, counter) == se[1] \o "_" \o ToString(counter) \o se[2]

\* save_page: the path the duplicate-name loop tries at counter.
numbered_path(original_path, counter) ==
    numbered_name(splitext(original_path), counter)

\* The paths recorded in downloaded_files are pairwise distinct.
RecordedPathsDistinct ==
    \A u, v \in DOMAIN downloaded_files :
        downloaded_files[u] = downloaded_files[v] => u = v

\* The path recorded for u is the first free one of its series: the nominal
\* path, or a numbered one with the nominal path and every lower number held
\* by a file or a directory.
FirstFreeRecorded(u, nominal) ==
    \/ downloaded_files[u] = nominal
    \/ \E j \in 1 .. Cardinality(files \cup dirs) :
          /\ downloaded_files[u] = numbered_path(nominal, j)
          /\ nominal \in files \cup dirs
          /\ \A i \in 1 .. (j - 1) : numbered_path(nominal, i) \in files \cup dirs

\* The urls recorded with the nominal path of u.
RecordedWithNominal(nominal) ==
    { v \in DOMAIN downloaded_files : SaveTable[v].original_path = nominal }

\* The path recorded for u carries a number below the count of recorded urls
\* of its nominal path.
NumberedByRank(u, nominal) ==
    \/ downloaded_files[u] = nominal
    \/ \E j \in 1 .. (Cardinality(RecordedWithNominal(nominal)) - 1) :
          downloaded_files[u] = numbered_path(nominal, j)

SavedPathsSound ==
    /\ RecordedPathsDistinct
    /\ \A u \in DOMAIN downloaded_files :
          /\ downloaded_files[u] \in files
          /\ FirstFreeRecorded(u, SaveTable[u].original_path)

\* C11 (as the code has it): save_page never writes a page to a path that
\* exists; the path it records is the first of foo.html, foo_1.html,
\* foo_2.html, ... that no file or directory holds, so the recorded paths
\* are pairwise distinct and every one of them stays the file of its page.
C11_SavesToFirstFreePath ==
    [][ /\ SavedPathsSound
        /\ (pc = "save" /\ pc' = "extract" /\ save_result' # "")
              => (save_result' \notin files \cup dirs
                  /\ downloaded_files'[crawl_url] = save_result') ]_vars

\* C11's case: two urls of one nominal file name are both saved, the second
\* under the name numbered 1.
C11_TwoUrlsOneName ==
    \E u, v \in DOMAIN downloaded_files :
        /\ u # v
        /\ SaveTable[u].original_path = SaveTable[v].original_path
        /\ downloaded_files[u] = SaveTable[u].original_path
        /\ downloaded_files[v] = numbered_path(SaveTable[v].original_path, 1)

\* C11 (as stated): the recorded paths are pairwise distinct and the k-th
\* url saved of one nominal file name has the number k-1: each recorded path
\* is the nominal one or carries a number below the count of recorded urls
\* of that name.
C11_KthSavedIsNumbered ==
    /\ RecordedPathsDistinct
    /\ \A u \in DOMAIN downloaded_files :
          NumberedByRank(u, SaveTable[u].original_path)

\* The file path of a page as the specification words it: index.html
\* directly under the documentation root for no segments or a final segment
\* "docs"; otherwise the last segment with ".html", sanitized, under the
\* root joined with all segments but the last.
mapToPath(parts) ==
    IF parts = << >> \/ parts[Len(parts)] = "docs"
    THEN DOCS_DIR \o "/" \o "index.html"
    ELSE Join(<< DOCS_DIR >> \o SubSeq(parts, 1, Len(parts) - 1), "/")
           \o "/" \o sanitize_filename(parts[Len(parts)] \o ".html")

\* The file name alone decided by the final segment; the directory is the
\* root joined with all segments but the last in either case.
mapToNestedPath(parts) ==
    Join(<< DOCS_DIR >> \o SubSeq(parts, 1, Len(parts) - 1), "/") \o "/"
      \o (IF parts = << >> \/ parts[Len(parts)] = "docs" THEN "index.html"
          ELSE sanitize_filename(parts[Len(parts)] \o ".html"))

\* C12 (as the code has it): the file of a page is index.html for a path of
\* no segments or a final segment "docs", and the last segment with ".html"
\* otherwise; in both cases it lies under the documentation root joined with
\* all segments but the last.
C12_SavePathNested ==
    probe.fn = "save_page"
        => probe.result.original_path = mapToNestedPath(path_parts(probe.arg))

\* C12's case: a path of several segments that ends in "docs".
C12_NestedDocsSegment ==
    /\ probe.fn = "save_page"
    /\ Len(path_parts(probe.arg)) > 1
    /\ path_parts(probe.arg)[Len(path_parts(probe.arg))] = "docs"
    /\ probe.result.dir_path # DOCS_DIR

\* C12 (as stated): for a path of no segments or a final segment "docs" the
\* file is index.html directly under the documentation root; otherwise it is
\* the last segment with ".html" under the root joined with all segments but
\* the last.
C12_SavePathAsSpecified ==
    probe.fn = "save_page"
        => probe.result.original_path = mapToPath(path_parts(probe.arg))

\* The urls the loc loop adds for one sitemap of locs b, from none.
entries_of(b) == scan_locs(b, 1, {}).found

\* C13: what discover_urls_from_sitemap returns are entries of at most one
\* sitemap: the urls of different candidate locations are never merged into
\* one result, also when the processing of a candidate fails part-way.
C13_EntriesOfOneSitemap ==
    (pc = "discover" /\ sitemap_index > Len(sitemap_urls))
        => \E b \in SitemapBodies : discovered_urls \subseteq entries_of(b)

\* C14: a candidate of the sitemap discovery that fails makes the next one
\* be tried and raises nothing; when every candidate has failed, the
\* discovery returns the empty set and crawl() starts from the static seeds
\* alone.
C14_DiscoveryFailureAbsorbed ==
    [][ /\ (pc = "discover" /\ pc' = "exit") => raised' = "KeyboardInterrupt"
        /\ (pc = "discover" /\ sitemap_failures' = sitemap_failures + 1)
              => sitemap_index' = sitemap_index + 1
        /\ (pc = "discover" /\ pc' = "loop"
              /\ sitemap_failures = Len(sitemap_urls))
              => (discovered_urls = {}
                  /\ urls_to_process' = << initial_urls({}) >>) ]_vars

\* C15: main() returns 0 whenever crawl() ran to completion, also when urls
\* failed, and a code other than 0 on an interrupt or an error of the
\* constructor.
C15_CompletedCrawlReturns0 ==
    pc = "exit"
        => /\ (summary.written /\ raised # "KeyboardInterrupt") => exit_code = 0
           /\ (raised = "KeyboardInterrupt" \/ dirs = {}) => exit_code # 0

\* C16: in the summary crawl() writes, total_pages is the number of urls
\* taken from the list and processed, with or without success (the size of
\* visited_urls at the end), and the two other counts are the sizes of
\* downloaded_files and of failed_urls.
C16_SummaryCounts ==
    summary.written
        => /\ summary.total_pages = Cardinality(visited_urls)
           /\ summary.successful_downloads = Cardinality(DOMAIN downloaded_files)
           /\ summary.failed_downloads = Cardinality(failed_urls)

\* url up to position i, the whole of it for i = -1.
stem_upto(url, i) == IF i >= 0 THEN Upto(url, i) ELSE url

\* The urls that differ from url in the fragment only.
FragmentSiblings(url) ==
    { stem_upto(url, Find(url, "#", 0)) \o f : f \in ProbeFragments }

\* C17: normalize_url returns one value for all urls that differ only in
\* their fragment, and extract_links_from_page makes one link of them, so
\* that crawl() has one entry and one fetch for them.
C17_FragmentsNormalizeAlike ==
    probe.fn = "normalize_url"
        => /\ \A v \in FragmentSiblings(probe.arg) :
                 normalize_url(v) = probe.result
           /\ Cardinality(extract_links_from_page(FragmentSiblings(probe.arg),
                                                  BASE_URL).links) <= 1

\* C17's case: a url with a fragment was normalized to the value of the url
\* without it.
C17_FragmentStripped ==
    /\ probe.fn = "normalize_url"
    /\ Contains("#top", probe.arg)
    /\ probe.result # Raised
    /\ probe.result = normalize_url(stem_upto(probe.arg, Find(probe.arg, "#", 0)))
    /\ ~Contains("#", probe.result)

\* The parts of a parsed url that normalize_url is to keep.
kept_parts(parsed) ==
    << parsed.scheme, parsed.netloc, parsed.path, parsed.query >>

\* C18: normalize_url applied to its own result returns that result, and it
\* changes nothing but the fragment: scheme, host, path and query of what it
\* returns are those of its argument.
C18_NormalizeIdempotentAndKeepsParts ==
    (probe.fn = "normalize_url" /\ probe.result # Raised)
        => /\ probe.again = probe.result
           /\ kept_parts(urlparse(probe.result)) = kept_parts(urlparse(probe.arg))

\* Whether path lies under the directory dir.
under(dir, path) == Upto(path, Len(dir) + 1) = dir \o "/"

\* C19: with the output directory overridden, every file of the run (the
\* saved pages and crawl_summary.json) is written under that directory and
\* none under the default output directory.
C19_FilesUnderOverride ==
    output_dir # OUTPUT_DIR
        => \A f \in files \ { "instructions.md" } :
               under(output_dir, f) /\ ~under(OUTPUT_DIR, f)

\* urls_to_process after pop(0) took u, which sat in the first batch.
after_pop(u) ==
    IF Head(urls_to_process) = { u } THEN Tail(urls_to_process)
    ELSE << Head(urls_to_process) \ { u } >> \o Tail(urls_to_process)

\* The urls that enter urls_to_process only as links of a page.
LinkOnly == Universe \ initial_urls(SitemapFound)

\* C20: urls_to_process is first in, first out. pop(0) takes a url of the
\* batch appended first and leaves the others in place; the links of a page
\* are appended behind all that is in the list; so a url that enters only
\* as a link is processed after every seed.
C20_FrontierIsFifo ==
    [][ /\ (pc = "loop" /\ urls_to_process' # urls_to_process /\ pc' # "exit")
              => \E u \in Head(urls_to_process) : urls_to_process' = after_pop(u)
        /\ (pc = "extract" /\ pc' = "sleep"
              /\ urls_to_process' # urls_to_process)
              => /\ Len(urls_to_process') = Len(urls_to_process) + 1
                 /\ SubSeq(urls_to_process', 1, Len(urls_to_process))
                      = urls_to_process
        /\ crawl_url \in LinkOnly => initial_urls({}) \subseteq visited_urls
      ]_vars

\* C20's case: a url found as a link is in flight, taken from the head
\* while links found later wait behind it.
C20_LinkTakenBeforeLaterLinks ==
    /\ pc = "download"
    /\ crawl_url \in LinkOnly
    /\ urls_to_process # << >>
    /\ initial_urls({}) \subseteq visited_urls


\* The steps of one turn of the loop in which a url is in flight.
FlightPcs == LoopPcs \ { "loop" }

\* C21: a url enters visited_urls once, in the step that pops it and before
\* download_page is called for it: while a fetch or a save is under way its
\* url is in visited_urls, and the pop of a url that is in visited_urls
\* already changes nothing but the list.
C21_VisitedWhenPopped ==
    [][ /\ pc \in FlightPcs => crawl_url \in visited_urls
        /\ visited_urls' # visited_urls
              => /\ pc = "loop" /\ pc' = "download"
                 /\ crawl_url' \in Head(urls_to_process) \ visited_urls
                 /\ visited_urls' = visited_urls \cup { crawl_url' }
                 /\ crawl_url' \notin DOMAIN download_calls
                 /\ UNCHANGED << disk_vars, failed_urls, downloaded_files,
                                 download_calls >>
        /\ (pc = "loop" /\ pc' = "loop" /\ urls_to_process' # urls_to_process)
              => /\ \E u \in Head(urls_to_process) \cap visited_urls :
                       urls_to_process' = after_pop(u)
                 /\ UNCHANGED << disk_vars, obj_vars, flight_vars,
                                 download_calls, processed_count >>
      ]_vars

\* C21's case: a page is being saved while the next url of the list is one
\* visited before, so its pop will discard it.
C21_VisitedUrlAwaitsDiscard ==
    /\ pc = "save"
    /\ crawl_url \in visited_urls
    /\ urls_to_process # << >>
    /\ Head(urls_to_process) \subseteq visited_urls \ { crawl_url }


\* The fetch that gave resp failed: session.get or raise_for_status raised
\* (transport, timeout, status), or the body is over MAX_FILE_SIZE.
FetchFailed(resp) == resp.status = "error" \/ resp.size > MAX_FILE_SIZE

\* C22: when the fetch of a url fails (an exception of the request, a
\* non-success status, an oversized body), no file is written for the url,
\* downloaded_files stays as it is, and no link of the page enters the list:
\* the turn goes from download_page straight back to the head of the loop.
C22_FailedFetchLeavesNoTrace ==
    [][ /\ pc \in { "save", "extract", "sleep" } => ~FetchFailed(response)
        /\ (pc = "download" /\ pc' = "downloaded")
              => UNCHANGED << disk_vars, downloaded_files, urls_to_process >>
        /\ (pc = "downloaded" /\ FetchFailed(response))
              => /\ pc' \in { "loop", "exit" }
                 /\ UNCHANGED << disk_vars, downloaded_files >>
                 /\ pc' = "loop" => UNCHANGED urls_to_process
                 /\ pc' = "exit" => urls_to_process' = << >>
      ]_vars

\* C22's case: download_page has returned for an oversized body whose page
\* has links, after another page was saved.
C22_OversizedFetchReturned ==
    /\ pc = "downloaded"
    /\ response.size > MAX_FILE_SIZE
    /\ response.hrefs # {}
    /\ DOMAIN downloaded_files # {}
    /\ crawl_url \notin DOMAIN downloaded_files


\* C23: downloaded_files and failed_urls only grow: no step takes a url out
\* of failed_urls, none takes a key out of downloaded_files, and the path
\* recorded for a url stays the one recorded first.
C23_RecordsOnlyGrow ==
    [][ /\ failed_urls \subseteq failed_urls'
        /\ DOMAIN downloaded_files \subseteq DOMAIN downloaded_files'
        /\ \A u \in DOMAIN downloaded_files :
              downloaded_files'[u] = downloaded_files[u]
      ]_vars

\* C23's case: a page has just been recorded next to an earlier one, and a
\* fetch has failed before.
C23_BothRecordsGrew ==
    /\ pc = "extract"
    /\ crawl_url \in DOMAIN downloaded_files
    /\ save_result = downloaded_files[crawl_url]
    /\ Cardinality(DOMAIN downloaded_files) >= 2
    /\ failed_urls # {}


\* C24: after each fetch that succeeded (the request gave a body, not over
\* MAX_FILE_SIZE) the loop passes time.sleep(REQUEST_DELAY) before it pops
\* the next url: a turn with a successful fetch comes back to the head of
\* the loop through the pause and no other way, once, and the pause leaves
\* the disk, the crawler's sets, the list and the count as they are.
C24_PauseAfterSuccessfulFetch ==
    [][ /\ (pc \in FlightPcs /\ pc' = "loop" /\ response # NoResponse
              /\ ~FetchFailed(response))
              => pc = "sleep"
        /\ pc = "sleep" => pc' \in { "loop", "exit" }
        /\ (pc = "sleep" /\ pc' = "loop")
              => UNCHANGED << disk_vars, crawl_vars, summary, download_calls >>
        /\ pc' = "download" => pc = "loop"
      ]_vars


\* The links of a page that are admissible as the specification words it,
\* given the normalized urls of its elements.
admissible_links(normalized) ==
    { u \in normalized \ { Raised } : Admissible(u) }

AdmissibleLinkTable ==
    [ u \in Universe |-> admissible_links(normalized_urls(SiteHrefs(u), u)) ]

\* The admissible links found on the page download_page returned for u.
logged_links(u) ==
    IF crawl_log.hrefs[u] = {} THEN {} ELSE AdmissibleLinkTable[u]

\* The urls of S and the admissible links found on their pages.
with_logged_links(S) ==
    S \cup UNION { logged_links(u) : u \in S \cap DOMAIN crawl_log.hrefs }

RECURSIVE Reachable(_)
reachable_step(S, T) == IF T = S THEN S ELSE Reachable(T)

\* The urls reachable from S by the admissible links of the pages fetched.
Reachable(S) == reachable_step(S, with_logged_links(S))

\* C25: when crawl() has returned, visited_urls is the set of the urls
\* reachable from the seeds (base url, docs root, priority sections, the
\* urls of the sitemap) by the admissible normalized links of the pages whose
\* fetch returned content: none of them is left out, no other url is in.
C25_VisitedIsReachableSet ==
    pc = "crawled" => visited_urls = Reachable(crawl_log.seeds)

=============================================================================
